---- MODULE Spec2Model ----
(***************************************************************************)
(* A model of dev/xdl/src/Exp.js (expo-cli, xdl): the derived identifiers  *)
(* (getLoggedOutPlaceholderUsernameAsync, getProjectRandomnessAsync), the  *)
(* recent-projects list (saveRecentExpRootAsync, recentValidExpsAsync),    *)
(* project creation (createNewExpAsync with _downloadStarterAppAsync and   *)
(* _extract) and the configuration lookup (expConfigForRootAsync) with     *)
(* what is derived from it (determineEntryPointAsync, getPublishInfoAsync).*)
(*                                                                         *)
(* JavaScript runs the code between two awaits atomically. Where the       *)
(* order of the awaited operations matters (the identifiers, project       *)
(* creation) a function is modelled by one action per such stretch of      *)
(* code; a function that runs alone from call to return is one action.     *)
(* Each component has its own specification; the variables of the other    *)
(* components stay at their initial values under it.                       *)
(***************************************************************************)
EXTENDS Integers, Sequences, FiniteSets, TLC

VARIABLES
  \* ---- derived identifiers
  store,        \* the persisted value of each derived identifier
  pending,      \* ProjectSettings.setAsync calls issued and not yet completed
  idPc,         \* each caller's position in its call
  idKey,        \* the identifier each caller's call is about
  idVal,        \* each caller's local lpu / randomness
  idSaw,        \* history: what the caller's read returned
  idAtCall,     \* history: what the store held when the caller's call began
  idQuiet,      \* history: whether no write was in flight when it began
  idGens,       \* history: generator invocations made by the caller's call
  idGenVal,     \* history: the value the caller's call generated, if any
  lastWriter,   \* history: per identifier, the caller whose write landed last
  idWrites,     \* history: store writes issued by the caller's call
  idRet,        \* history: what the caller's last completed call returned
  rets,         \* history: per identifier, the values returned, in order
  genCount,     \* history: per identifier, the generator invocations
  idCalls,      \* history: calls started
  \* ---- recent projects
  recentFile,   \* the recent-projects JSON file: whether it exists, its list
  nextFresh,    \* the number of never-seen-before roots recorded so far
  lastRaw,      \* history: the argument of the last saveRecentExpRootAsync
  useOrder,     \* history: the distinct resolved roots recorded, by last use
  recCalls,     \* history: whether saveRecentExpRootAsync has completed
  projects,     \* what is at each root: an exp.json, a package.json, nothing
  rvResult,     \* what the last recentValidExpsAsync returned
  rvBefore,     \* history: the recent-projects file when it was called
  rvAfter,      \* history: the recent-projects file when it returned
  rvCalls,      \* history: whether recentValidExpsAsync has completed
  srPc,         \* each concurrent saveRecentExpRootAsync: where it is
  srRoot,       \* its root, resolved
  srList,       \* the list it passes to writeAsync
  srLastWriter, \* history: the caller whose write completed last
  \* ---- project creation
  dirs,         \* the parent directory: what is at each child path
  cacheDir,     \* whether the starter-app-cache directory exists
  cacheFiles,   \* the versions v whose default-v.tar.gz is in the cache
  registry,     \* the version Api.versionsAsync reports for 'default'
  cnPc,         \* createNewExpAsync: the await it is suspended at, or idle
  cnOpts,       \* its opts argument
  cnRoot,       \* its root, once computed
  cnArchive,    \* the version in its starterAppPath, once known
  cnNotes,      \* the progress notifications it has emitted
  cnOutcome,    \* how it ended: none (not yet), ok, or the error's kind
  cnLog,        \* history: the operations it has started, in order
  cnFailedAt,   \* history: the operation whose failure it threw, if any
  cnTar,        \* history: how the tar invocation ended
  cnTargz,      \* history: how the tar.gz library extraction ended
  cnSnap,       \* history: the file system when it was called
  cnPrev,       \* history: how the call before it ended
  acqLog,       \* history: the runs of _downloadStarterAppAsync
  cnCalls,      \* history: calls started
  \* ---- project creation: the customized package.json
  tplPkg,       \* package.json as extracted from the starter app
  extraFields,  \* the extraPackageJsonFields argument
  email,        \* what UserSettings.getAsync('email', null) gives
  mgName,       \* opts.name
  mgPc,         \* idle, or done once package.json has been written
  pkgWritten,   \* the data passed to packageJsonFile.writeAsync
  \* ---- configuration lookup
  pkgFile,      \* package.json at the project root: its state and contents
  expFile,      \* exp.json at the project root: its state and contents
  cfgPc,        \* idle, or done once expConfigForRootAsync has returned
  cfgResult,    \* what expConfigForRootAsync returned
  cfgOutcome,   \* how it ended: none (not yet), ok, or the error's kind
  username,     \* what User.getUsernameAsync gives the caller
  epPc,         \* idle, or done once determineEntryPointAsync has ended
  epOutcome,    \* how determineEntryPointAsync ended
  epResult,     \* what it returned
  pubPc,        \* idle, or done once getPublishInfoAsync has ended
  pubOutcome,   \* how getPublishInfoAsync ended
  pubResult     \* the args it returned

identVars == <<store, pending, idPc, idKey, idVal, idSaw, idAtCall, idQuiet,
               idGens, idGenVal, lastWriter, idWrites, idRet, rets, genCount,
               idCalls>>

\* recentValidExpsAsync's own variables.
rvVars == <<projects, rvResult, rvBefore, rvAfter, rvCalls>>

\* The variables of the concurrent calls of saveRecentExpRootAsync.
raceVars == <<srPc, srRoot, srList, srLastWriter>>

recVars == <<recentFile, nextFresh, lastRaw, useOrder, recCalls, rvVars,
             raceVars>>

createVars == <<dirs, cacheDir, cacheFiles, registry, cnPc, cnOpts, cnRoot,
                cnArchive, cnNotes, cnOutcome, cnLog, cnFailedAt, cnTar,
                cnTargz, cnSnap, cnPrev, acqLog, cnCalls>>

\* The variables of the customization of package.json.
mgVars == <<tplPkg, extraFields, email, mgName, mgPc, pkgWritten>>

scafVars == <<createVars, mgVars>>

cfgVars == <<pkgFile, expFile, cfgPc, cfgResult, cfgOutcome, username, epPc,
             epOutcome, epResult, pubPc, pubOutcome, pubResult>>

vars == <<identVars, recVars, scafVars, cfgVars>>

\* What each component's actions leave alone: the other components.
identOthers == <<recVars, scafVars, cfgVars>>
recOthers == <<identVars, scafVars, cfgVars>>
scafOthers == <<identVars, recVars, cfgVars, mgVars>>
mgOthers == <<identVars, recVars, cfgVars, createVars>>
cfgOthers == <<identVars, recVars, scafVars>>

(***************************************************************************)
(* Derived identifiers.                                                    *)
(***************************************************************************)

\* The two identifiers Exp.js derives and persists.
LpuKey == "loggedOutPlaceholderUsername"
RandKey == "urlRandomness"
IdKeys == {LpuKey, RandKey}

\* Concurrent callers (processes or pending promises) of the two functions.
NumCallers == 2
Callers == 1..NumCallers

\* Calls started in one behaviour.
MaxIdCalls == 3

\* What the generators may return: non-empty strings, numbered.
NumGenValues == 2
GenValues == 1..NumGenValues

\* null / undefined: the default of UserSettings.getAsync(key, null) and the
\* value of a field ProjectSettings has not got.
NoValue == 0

\* JavaScript's !x on a stored identifier: true of null, undefined and "".
Falsy(v) == v = NoValue

\* A slip that regenerates whatever the read returned.
NeedsGenerateAlways(v) == TRUE

\* if (!lpu) / if (!randomness): the generator runs only for a falsy read.
NeedsGenerate(v) == Falsy(v)

\* The stores hold neither identifier and nobody is calling.
IdentIdle ==
  /\ store = [k \in IdKeys |-> NoValue]
  /\ pending = {}
  /\ idPc = [c \in Callers |-> "idle"]
  /\ idKey = [c \in Callers |-> LpuKey]
  /\ idVal = [c \in Callers |-> NoValue]
  /\ idSaw = [c \in Callers |-> NoValue]
  /\ idAtCall = [c \in Callers |-> NoValue]
  /\ idQuiet = [c \in Callers |-> FALSE]
  /\ idGens = [c \in Callers |-> 0]
  /\ idGenVal = [c \in Callers |-> NoValue]
  /\ lastWriter = [k \in IdKeys |-> 0]
  /\ idWrites = [c \in Callers |-> 0]
  /\ idRet = [c \in Callers |-> NoValue]
  /\ rets = [k \in IdKeys |-> <<>>]
  /\ genCount = [k \in IdKeys |-> 0]
  /\ idCalls = 0

\* The recent-projects component at rest (the state the other components'
\* specifications leave it in): recentValidExpsAsync has not been called
\* (ListingIdle) and the file is not there.
ListingIdle ==
  /\ projects = <<>>
  /\ rvResult = <<>>
  /\ rvBefore = [exists |-> FALSE, json |-> <<>>]
  /\ rvAfter = [exists |-> FALSE, json |-> <<>>]
  /\ rvCalls = FALSE

\* No concurrent call of saveRecentExpRootAsync has begun.
RaceIdle ==
  /\ srPc = [c \in Callers |-> "idle"]
  /\ srRoot = [c \in Callers |-> <<>>]
  /\ srList = [c \in Callers |-> <<>>]
  /\ srLastWriter = 0

RecentIdle ==
  /\ recentFile = [exists |-> FALSE, json |-> <<>>]
  /\ nextFresh = 0
  /\ lastRaw = [abs |-> TRUE, segs |-> <<>>]
  /\ useOrder = <<>>
  /\ recCalls = FALSE
  /\ ListingIdle
  /\ RaceIdle

\* The child paths of the parent directory that calls name.
Targets == {"foo", "bar"}

\* root before createNewExpAsync has computed it.
NoRoot == "none"

\* starterAppPath before _downloadStarterAppAsync has returned it.
NoArchive == 0

\* A path with nothing at it.
Absent ==
  [exists |-> FALSE, files |-> "none", pkgDone |-> FALSE, mainDone |-> FALSE,
   expDone |-> FALSE]

\* A path somebody else has put something at.
Foreign ==
  [exists |-> TRUE, files |-> "none", pkgDone |-> FALSE, mainDone |-> FALSE,
   expDone |-> FALSE]

\* What is known of the call before the first one.
NoPrev == [root |-> NoRoot, outcome |-> "none", failedAt |-> "none"]

\* The fields of package.json told apart: the four createNewExpAsync sets,
\* and two it does not.
PkgFields == {"name", "version", "description", "author", "main", "license"}

\* A field an object has not got.
NoField == "<none>"

\* null, the default of UserSettings.getAsync('email', null).
Null == "<null>"

\* The object {}.
EmptyObject == [f \in PkgFields |-> NoField]

\* No package.json is being customized.
MergeIdle ==
  /\ tplPkg = EmptyObject
  /\ extraFields = EmptyObject
  /\ email = Null
  /\ mgName = ""
  /\ mgPc = "idle"
  /\ pkgWritten = EmptyObject

\* createNewExpAsync has not been called.
ScaffoldIdle ==
  /\ MergeIdle
  /\ dirs = [t \in Targets |-> Absent]
  /\ cacheDir = FALSE
  /\ cacheFiles = {}
  /\ registry = 1
  /\ cnPc = "idle"
  /\ cnOpts = [given |-> FALSE, ntype |-> "undefined", name |-> ""]
  /\ cnRoot = NoRoot
  /\ cnArchive = NoArchive
  /\ cnNotes = <<>>
  /\ cnOutcome = "none"
  /\ cnLog = <<>>
  /\ cnFailedAt = "none"
  /\ cnTar = "none"
  /\ cnTargz = "none"
  /\ cnPrev = NoPrev
  /\ cnSnap = [dirs |-> [t \in Targets |-> Absent], cacheDir |-> FALSE,
                cacheFiles |-> {}]
  /\ acqLog = <<>>
  /\ cnCalls = 0

\* undefined where a configuration object is expected: the value of exp
\* before it is read, and of pkg.exp in a package.json without that section.
\* In an object a field that is "" is not there.
NoConfig ==
  [isObj |-> FALSE, sdkVersion |-> "", slug |-> "", version |-> "",
   entryPoint |-> ""]

\* The contents of a package.json with no field at all.
NoPkg == [name |-> "", version |-> "", main |-> "", exp |-> NoConfig]

\* The args of a PublishInfo before getPublishInfoAsync has built them.
NoPublishInfo ==
  [username |-> "", localPackageName |-> "", packageVersion |-> "",
   remoteFullPackageName |-> "", sdkVersion |-> ""]

\* None of the three functions has been called.
ConfigCallsIdle ==
  /\ cfgPc = "idle"
  /\ cfgResult = NoConfig
  /\ cfgOutcome = "none"
  /\ epPc = "idle"
  /\ epOutcome = "none"
  /\ epResult = ""
  /\ pubPc = "idle"
  /\ pubOutcome = "none"
  /\ pubResult = NoPublishInfo

\* No lookup has run, at a root with neither file, nobody logged in.
ConfigIdle ==
  /\ pkgFile = [state |-> "missing", json |-> NoPkg]
  /\ expFile = [state |-> "missing", json |-> NoConfig]
  /\ username = ""
  /\ ConfigCallsIdle

InitIdent ==
  /\ IdentIdle
  /\ RecentIdle
  /\ ScaffoldIdle
  /\ ConfigIdle

\* A call of either function starts: it runs up to its first await, the read.
\* With sequential set, a call starts only after every earlier call returned.
IdBegin(c, k, sequential) ==
  /\ idPc[c] = "idle"
  /\ idCalls < MaxIdCalls
  /\ sequential => \A d \in Callers : idPc[d] = "idle"
  /\ idPc' = [idPc EXCEPT ![c] = "read"]
  /\ idKey' = [idKey EXCEPT ![c] = k]
  /\ idVal' = [idVal EXCEPT ![c] = NoValue]
  /\ idSaw' = [idSaw EXCEPT ![c] = NoValue]
  /\ idAtCall' = [idAtCall EXCEPT ![c] = store[k]]
  /\ idQuiet' = [idQuiet EXCEPT ![c] =
                   pending = {} /\ \A d \in Callers : idPc[d] # "set"]
  /\ idGens' = [idGens EXCEPT ![c] = 0]
  /\ idGenVal' = [idGenVal EXCEPT ![c] = NoValue]
  /\ idWrites' = [idWrites EXCEPT ![c] = 0]
  /\ idRet' = [idRet EXCEPT ![c] = NoValue]
  /\ idCalls' = idCalls + 1
  /\ UNCHANGED <<store, pending, rets, genCount, lastWriter>>
  /\ UNCHANGED identOthers

\* getLoggedOutPlaceholderUsernameAsync, from the read's completion: a truthy
\* value is returned; otherwise the generator runs and setAsync is awaited.
LpuRead(c) ==
  /\ idPc[c] = "read"
  /\ idKey[c] = LpuKey
  /\ idSaw' = [idSaw EXCEPT ![c] = store[LpuKey]]
  /\ IF NeedsGenerate(store[LpuKey])
       THEN \E g \in GenValues :
              /\ idVal' = [idVal EXCEPT ![c] = g]
              /\ idGens' = [idGens EXCEPT ![c] = @ + 1]
              /\ idGenVal' = [idGenVal EXCEPT ![c] = g]
              /\ genCount' = [genCount EXCEPT ![LpuKey] = @ + 1]
              /\ idWrites' = [idWrites EXCEPT ![c] = @ + 1]
              /\ idPc' = [idPc EXCEPT ![c] = "set"]
              /\ UNCHANGED <<rets, idRet>>
       ELSE /\ idVal' = [idVal EXCEPT ![c] = store[LpuKey]]
            /\ idPc' = [idPc EXCEPT ![c] = "idle"]
            /\ idRet' = [idRet EXCEPT ![c] = store[LpuKey]]
            /\ rets' = [rets EXCEPT ![LpuKey] = Append(@, store[LpuKey])]
            /\ UNCHANGED <<idGens, idGenVal, genCount, idWrites>>
  /\ UNCHANGED <<store, pending, idKey, idAtCall, idQuiet, idCalls,
                 lastWriter>>
  /\ UNCHANGED identOthers

\* A variant that writes only if no value has been persisted meanwhile and
\* returns what is persisted then.
LpuSetIfAbsentDone(c) ==
  /\ idPc[c] = "set"
  /\ idKey[c] = LpuKey
  /\ IF Falsy(store[LpuKey])
       THEN /\ store' = [store EXCEPT ![LpuKey] = idVal[c]]
            /\ lastWriter' = [lastWriter EXCEPT ![LpuKey] = c]
       ELSE UNCHANGED <<store, lastWriter>>
  /\ idPc' = [idPc EXCEPT ![c] = "idle"]
  /\ idRet' = [idRet EXCEPT ![c] = store'[LpuKey]]
  /\ rets' = [rets EXCEPT ![LpuKey] = Append(@, store'[LpuKey])]
  /\ UNCHANGED <<pending, idKey, idVal, idSaw, idAtCall, idQuiet, idGens,
                 idGenVal, idWrites, genCount, idCalls>>
  /\ UNCHANGED identOthers

\* The awaited UserSettings.setAsync completes; the function returns lpu.
LpuSetDone(c) ==
  /\ idPc[c] = "set"
  /\ idKey[c] = LpuKey
  /\ store' = [store EXCEPT ![LpuKey] = idVal[c]]
  /\ lastWriter' = [lastWriter EXCEPT ![LpuKey] = c]
  /\ idPc' = [idPc EXCEPT ![c] = "idle"]
  /\ idRet' = [idRet EXCEPT ![c] = idVal[c]]
  /\ rets' = [rets EXCEPT ![LpuKey] = Append(@, idVal[c])]
  /\ UNCHANGED <<pending, idKey, idVal, idSaw, idAtCall, idQuiet, idGens,
                 idGenVal, idWrites, genCount, idCalls>>
  /\ UNCHANGED identOthers

\* getProjectRandomnessAsync, from the read's completion: a truthy value is
\* returned; otherwise the generator runs, ProjectSettings.setAsync is called
\* and NOT awaited, and the function returns at once with the write in flight.
RandRead(c) ==
  /\ idPc[c] = "read"
  /\ idKey[c] = RandKey
  /\ idSaw' = [idSaw EXCEPT ![c] = store[RandKey]]
  /\ IF NeedsGenerate(store[RandKey])
       THEN \E g \in GenValues :
              /\ idVal' = [idVal EXCEPT ![c] = g]
              /\ idGens' = [idGens EXCEPT ![c] = @ + 1]
              /\ idGenVal' = [idGenVal EXCEPT ![c] = g]
              /\ genCount' = [genCount EXCEPT ![RandKey] = @ + 1]
              /\ idWrites' = [idWrites EXCEPT ![c] = @ + 1]
              /\ pending' = pending \cup {[by |-> c, call |-> idCalls, val |-> g]}
              /\ idRet' = [idRet EXCEPT ![c] = g]
              /\ rets' = [rets EXCEPT ![RandKey] = Append(@, g)]
       ELSE /\ idVal' = [idVal EXCEPT ![c] = store[RandKey]]
            /\ idRet' = [idRet EXCEPT ![c] = store[RandKey]]
            /\ rets' = [rets EXCEPT ![RandKey] = Append(@, store[RandKey])]
            /\ UNCHANGED <<idGens, idGenVal, genCount, idWrites, pending>>
  /\ idPc' = [idPc EXCEPT ![c] = "idle"]
  /\ UNCHANGED <<store, idKey, idAtCall, idQuiet, idCalls, lastWriter>>
  /\ UNCHANGED identOthers

\* A ProjectSettings.setAsync that nobody awaits completes.
RandWriteLands ==
  \E w \in pending :
    /\ store' = [store EXCEPT ![RandKey] = w.val]
    /\ lastWriter' = [lastWriter EXCEPT ![RandKey] = w.by]
    /\ pending' = pending \ {w}
    /\ UNCHANGED <<idPc, idKey, idVal, idSaw, idAtCall, idQuiet, idGens,
                   idGenVal, idWrites, idRet, rets, genCount, idCalls>>
    /\ UNCHANGED identOthers

IdentNext(sequential) ==
  \/ \E c \in Callers, k \in IdKeys : IdBegin(c, k, sequential)
  \/ \E c \in Callers : LpuRead(c)
  \/ \E c \in Callers : LpuSetDone(c)
  \/ \E c \in Callers : RandRead(c)
  \/ RandWriteLands

\* Calls of the two functions, interleaved at their awaits.
SpecIdent == InitIdent /\ [][IdentNext(FALSE)]_vars

\* Calls of the two functions made one after the other.
SpecIdentSeq == InitIdent /\ [][IdentNext(TRUE)]_vars

(***************************************************************************)
(* The recent-projects list (saveRecentExpRootAsync).                      *)
(*                                                                         *)
(* A path is a sequence of segments. A segment is a number: DotSeg stands  *)
(* for ".", DotDotSeg for "..", a positive number for a name. What the     *)
(* file holds are resolved paths: absolute, with names only.               *)
(***************************************************************************)

\* recentExps.slice(0, 100)
MaxRecent == 100

\* Never-seen-before roots recorded in one behaviour.
MaxFresh == 105

DotSeg == 0
DotDotSeg == 0 - 1

\* process.cwd(), which path.resolve puts before a relative path: "/1".
Cwd == <<1>>

\* The resolved root the revisiting calls are about: "/1/2".
HotRoot == <<1, 2>>

\* Arguments that all name HotRoot: "/1/2", "2", "./3/../2", "/../1/2/.".
HotArgs ==
  { [abs |-> TRUE, segs |-> <<1, 2>>],
    [abs |-> FALSE, segs |-> <<2>>],
    [abs |-> FALSE, segs |-> <<DotSeg, 3, DotDotSeg, 2>>],
    [abs |-> TRUE, segs |-> <<DotDotSeg, 1, 2, DotSeg>>] }

\* The k-th never-seen-before root, given in resolved form: "/<3+k>".
FreshArg(k) == [abs |-> TRUE, segs |-> <<3 + k>>]

\* path.resolve's normalisation of the segments, left to right: "." is
\* dropped, ".." drops the segment before it (and is dropped at the root).
RECURSIVE Normalize(_, _)
Normalize(done, segs) ==
  IF segs = <<>> THEN done
  ELSE LET s == Head(segs)
       IN  IF s = DotSeg THEN Normalize(done, Tail(segs))
           ELSE IF s = DotDotSeg
             THEN Normalize(IF done = <<>> THEN <<>>
                            ELSE SubSeq(done, 1, Len(done) - 1), Tail(segs))
           ELSE Normalize(Append(done, s), Tail(segs))

\* path.resolve(root): an absolute path as it is, a relative one under the
\* working directory, normalised.
resolve(root) == Normalize(<<>>, (IF root.abs THEN <<>> ELSE Cwd) \o root.segs)

\* recentExpsJsonFile.readAsync({cantReadFileDefault: []})
ReadRecent == IF recentFile.exists THEN recentFile.json ELSE <<>>

\* A slip that keeps the copies.
FilterKeepsAll(list, root) == list

\* recentExps.filter(x => x !== root)
FilterOut(list, root) == SelectSeq(list, LAMBDA x : x # root)

\* A slip that puts root at the end.
Push(list, root) == list \o <<root>>

\* recentExps.unshift(root)
Unshift(list, root) == <<root>> \o list

\* A slip that writes the whole list.
SliceNothing(list) == list

\* recentExps.slice(0, 100)
Slice(list) == SubSeq(list, 1, IF Len(list) < MaxRecent THEN Len(list) ELSE MaxRecent)

\* The store is missing or holds the empty list.
InitRecent ==
  /\ recentFile \in {[exists |-> e, json |-> <<>>] : e \in BOOLEAN}
  /\ nextFresh = 0
  /\ lastRaw = [abs |-> TRUE, segs |-> <<>>]
  /\ useOrder = <<>>
  /\ recCalls = FALSE
  /\ ListingIdle
  /\ RaceIdle
  /\ IdentIdle
  /\ ScaffoldIdle
  /\ ConfigIdle

\* saveRecentExpRootAsync(root), run alone from its call to its return.
SaveRecentExpRoot(arg) ==
  LET root == resolve(arg)
      recentExps == Unshift(FilterOut(ReadRecent, root), root)
  IN  /\ recentFile' = [exists |-> TRUE, json |-> Slice(recentExps)]
      /\ lastRaw' = arg
      /\ useOrder' = <<root>> \o SelectSeq(useOrder, LAMBDA x : x # root)
      /\ recCalls' = TRUE
      /\ UNCHANGED <<rvVars, raceVars>>
      /\ UNCHANGED recOthers

\* A call with a root no earlier call named.
SaveFreshRoot ==
  /\ nextFresh < MaxFresh
  /\ nextFresh' = nextFresh + 1
  /\ SaveRecentExpRoot(FreshArg(nextFresh + 1))

\* A call with one of the names of HotRoot.
SaveHotRoot ==
  /\ \E arg \in HotArgs : SaveRecentExpRoot(arg)
  /\ UNCHANGED nextFresh

RecentNext ==
  \/ SaveFreshRoot
  \/ SaveHotRoot

\* Calls of saveRecentExpRootAsync made one after the other.
SpecRecent == InitRecent /\ [][RecentNext]_vars

(***************************************************************************)
(* Concurrent calls of saveRecentExpRootAsync: one action per stretch of   *)
(* code between its awaits (the read of line 172, the write of line 178).  *)
(***************************************************************************)

\* The list n calls with n never-seen-before roots leave, newest first.
ListOfFresh(n) == [i \in 1..n |-> resolve(FreshArg(n + 1 - i))]

\* The lengths of the list the concurrent calls start from.
RaceLens == {0, 1, MaxRecent - 1, MaxRecent}

\* The arguments of the concurrent calls: the names of HotRoot (in no list),
\* the oldest and the newest root of a full list, and a root in no list.
RaceArgs ==
  HotArgs \cup {FreshArg(1), FreshArg(MaxRecent), FreshArg(MaxRecent + 1)}

\* The store is missing or holds a list earlier calls have left.
InitRace ==
  /\ recentFile \in
       {[exists |-> FALSE, json |-> <<>>]}
         \cup {[exists |-> TRUE, json |-> ListOfFresh(n)] : n \in RaceLens}
  /\ nextFresh = 0
  /\ lastRaw = [abs |-> TRUE, segs |-> <<>>]
  /\ useOrder = <<>>
  /\ recCalls = FALSE
  /\ ListingIdle
  /\ RaceIdle
  /\ IdentIdle
  /\ ScaffoldIdle
  /\ ConfigIdle

\* saveRecentExpRootAsync(arg) is called: root is resolved and the read of
\* the file begins.
SaveBegin(c, arg) ==
  /\ srPc[c] = "idle"
  /\ srPc' = [srPc EXCEPT ![c] = "read"]
  /\ srRoot' = [srRoot EXCEPT ![c] = resolve(arg)]
  /\ UNCHANGED <<srList, srLastWriter>>
  /\ UNCHANGED <<recentFile, nextFresh, lastRaw, useOrder, recCalls, rvVars>>
  /\ UNCHANGED recOthers

\* The read completes: the list read is filtered, root is put in front, and
\* the write of the first 100 begins.
SaveRead(c) ==
  /\ srPc[c] = "read"
  /\ srPc' = [srPc EXCEPT ![c] = "write"]
  /\ srList' = [srList EXCEPT ![c] =
                  Slice(Unshift(FilterOut(ReadRecent, srRoot[c]), srRoot[c]))]
  /\ UNCHANGED <<srRoot, srLastWriter>>
  /\ UNCHANGED <<recentFile, nextFresh, lastRaw, useOrder, recCalls, rvVars>>
  /\ UNCHANGED recOthers

\* The write completes and the call returns.
SaveWritten(c) ==
  /\ srPc[c] = "write"
  /\ srPc' = [srPc EXCEPT ![c] = "done"]
  /\ recentFile' = [exists |-> TRUE, json |-> srList[c]]
  /\ srLastWriter' = c
  /\ UNCHANGED <<srRoot, srList>>
  /\ UNCHANGED <<nextFresh, lastRaw, useOrder, recCalls, rvVars>>
  /\ UNCHANGED recOthers

RaceNext ==
  \/ \E c \in Callers, arg \in RaceArgs : SaveBegin(c, arg)
  \/ \E c \in Callers : SaveRead(c)
  \/ \E c \in Callers : SaveWritten(c)

\* One call of saveRecentExpRootAsync per caller, interleaved at the awaits.
SpecRace == InitRace /\ [][RaceNext]_vars

(***************************************************************************)
(* The valid recent projects (recentValidExpsAsync, expInfoSafeAsync,      *)
(* expInfoAsync).                                                          *)
(***************************************************************************)

\* filteredResults.slice(0, 5)
MaxValid == 5

\* Roots recorded in one behaviour of the listing's specification.
MaxListed == 7

\* Those roots, resolved.
ListedRoots == {resolve(FreshArg(k)) : k \in 1..MaxListed}

\* What can be at a root, as far as expInfoAsync can tell: a readable
\* exp.json; no readable exp.json but a readable package.json; neither.
ProjectStates == {"exp", "pkg", "gone"}

\* null, which expInfoSafeAsync returns for a root expInfoAsync throws on.
NullInfo == [isNull |-> TRUE, root |-> <<>>, from |-> "none"]

\* expInfoSafeAsync(root): the info read from exp.json, or when reading it
\* throws from package.json, or when that throws too null.
expInfoSafe(root) ==
  IF projects[root] = "gone" THEN NullInfo
  ELSE [isNull |-> FALSE, root |-> root, from |-> projects[root]]

\* recentExps.map(expInfoSafeAsync), all settled: one result per entry, in
\* the entries' order.
MapInfo(list) == [i \in 1..Len(list) |-> expInfoSafe(list[i])]

\* A slip that keeps the nulls.
KeepAllResults(results) == results

\* results.filter(result => result)
FilterValid(results) == SelectSeq(results, LAMBDA x : ~x.isNull)

\* filteredResults.slice(0, 5)
SliceValid(results) ==
  SubSeq(results, 1, IF Len(results) < MaxValid THEN Len(results) ELSE MaxValid)

\* The store is missing or holds the empty list; the roots that will be
\* recorded are in any state.
InitListing ==
  /\ recentFile \in {[exists |-> e, json |-> <<>>] : e \in BOOLEAN}
  /\ nextFresh = 0
  /\ lastRaw = [abs |-> TRUE, segs |-> <<>>]
  /\ useOrder = <<>>
  /\ recCalls = FALSE
  /\ projects \in [ListedRoots -> ProjectStates]
  /\ rvResult = <<>>
  /\ rvBefore = [exists |-> FALSE, json |-> <<>>]
  /\ rvAfter = [exists |-> FALSE, json |-> <<>>]
  /\ rvCalls = FALSE
  /\ RaceIdle
  /\ IdentIdle
  /\ ScaffoldIdle
  /\ ConfigIdle

\* saveRecentExpRootAsync with the next of the listed roots.
SaveListedRoot ==
  /\ nextFresh < MaxListed
  /\ nextFresh' = nextFresh + 1
  /\ SaveRecentExpRoot(FreshArg(nextFresh + 1))

\* recentValidExpsAsync(), run alone from its call to its return: it reads
\* the file and the projects and writes nothing.
RecentValidExps ==
  /\ UNCHANGED <<recentFile, nextFresh, lastRaw, useOrder, recCalls, projects>>
  /\ rvResult' = SliceValid(FilterValid(MapInfo(ReadRecent)))
  /\ rvBefore' = recentFile
  /\ rvAfter' = recentFile'
  /\ rvCalls' = TRUE
  /\ UNCHANGED raceVars
  /\ UNCHANGED recOthers

ListingNext ==
  \/ SaveListedRoot
  \/ RecentValidExps

\* Calls of saveRecentExpRootAsync and recentValidExpsAsync made one after
\* the other.
SpecListing == InitListing /\ [][ListingNext]_vars

(***************************************************************************)
(* Project creation (createNewExpAsync, _downloadStarterAppAsync,          *)
(* _extract).                                                              *)
(*                                                                         *)
(* Each action is the code that runs when the awaited operation named by   *)
(* cnPc completes, up to the next await. An awaited operation that can     *)
(* fail takes its outcome ok from BOOLEAN.                                 *)
(***************************************************************************)

\* Calls of createNewExpAsync in one behaviour.
MaxCreates == 3

\* Versions of the 'default' starter app the registry comes to report.
NumVersions == 2

\* The opts arguments tried: none, {}, {name: 5}, {name: ""}, {name: "foo"},
\* {name: "bar"}.
OptsInputs ==
  { [given |-> FALSE, ntype |-> "undefined", name |-> ""],
    [given |-> TRUE, ntype |-> "undefined", name |-> ""],
    [given |-> TRUE, ntype |-> "number", name |-> ""],
    [given |-> TRUE, ntype |-> "string", name |-> ""] }
  \cup { [given |-> TRUE, ntype |-> "string", name |-> t] : t \in Targets }

\* joi.validate(opts, joi.object().keys({name: joi.string().required()})):
\* a joi schema that is not itself .required() accepts undefined; within an
\* object, name must be there, be a string, and not be "".
JoiAccepts(opts) ==
  \/ ~opts.given
  \/ opts.ntype = "string" /\ opts.name # ""

\* A slip that takes whatever is at root for nothing.
StatFindsNothing(root) == FALSE

\* fs.statSync(root) does not throw: something is at root.
StatFinds(root) == dirs[root].exists

\* A slip that never finds the archive in the cache.
CacheMiss(version) == FALSE

\* existsAsync(starterAppPath): the file <name>-<version>.tar.gz is there.
CacheHas(version) == version \in cacheFiles

\* starterAppPath: the cache directory joined with <name>-<version>.tar.gz.
StarterAppPath(version) == [name |-> "default", version |-> version]

\* A slip that lets the failure of tar reach the caller.
CatchesNothing == FALSE

\* _extract: the tar invocation sits in a try block whose catch block runs
\* the tar.gz library.
CatchesTarFailure == TRUE

\* A slip that customises package.json before the archive is there.
NextOpCustomizingEarly(op) ==
  CASE op = "validate" -> "stat"
    [] op = "stat" -> "mkdir"
    [] op = "mkdir" -> "email"
    [] op = "versions" -> "exists"
    [] op = "exists" -> "download"
    [] op = "download" -> "tar"
    [] op = "tar" -> "targz"
    [] op = "targz" -> "return"
    [] op = "email" -> "readPkg"
    [] op = "readPkg" -> "writePkg"
    [] op = "writePkg" -> "versions"
    [] op = "readMain" -> "writeMain"
    [] op = "writeMain" -> "readExp"
    [] op = "readExp" -> "writeExp"
    [] op = "writeExp" -> "return"

\* The operation the code starts after op has completed, line after line
\* (the branches at exists and tar are taken in the actions).
NextOp(op) ==
  CASE op = "validate" -> "stat"
    [] op = "stat" -> "mkdir"
    [] op = "mkdir" -> "versions"
    [] op = "versions" -> "exists"
    [] op = "exists" -> "download"
    [] op = "download" -> "tar"
    [] op = "tar" -> "targz"
    [] op = "targz" -> "email"
    [] op = "email" -> "readPkg"
    [] op = "readPkg" -> "writePkg"
    [] op = "writePkg" -> "readMain"
    [] op = "readMain" -> "writeMain"
    [] op = "writeMain" -> "readExp"
    [] op = "readExp" -> "writeExp"
    [] op = "writeExp" -> "return"

\* Logger.notifications.info, called right before these operations start.
NoteBefore(op) ==
  CASE op = "versions" -> <<"Downloading project files...">>
    [] op = "tar" -> <<"Extracting project files...">>
    [] op = "email" -> <<"Customizing project...">>
    [] OTHER -> <<>>

\* The call goes on to operation op: its notification, then its start.
Start(op) ==
  /\ cnNotes' = cnNotes \o NoteBefore(op)
  /\ cnLog' = Append(cnLog, op)
  /\ cnPc' = op

\* The awaited operation threw and nothing caught it: the call ends.
Throw(kind) ==
  /\ cnOutcome' = kind
  /\ cnFailedAt' = cnPc
  /\ cnPc' = "idle"
  /\ UNCHANGED <<cnNotes, cnLog>>

\* Some paths may hold something before the first call.
InitScaffold ==
  /\ MergeIdle
  /\ dirs \in [Targets -> {Absent, Foreign}]
  /\ cacheDir = FALSE
  /\ cacheFiles = {}
  /\ registry = 1
  /\ cnPc = "idle"
  /\ cnOpts = [given |-> FALSE, ntype |-> "undefined", name |-> ""]
  /\ cnRoot = NoRoot
  /\ cnArchive = NoArchive
  /\ cnNotes = <<>>
  /\ cnOutcome = "none"
  /\ cnLog = <<>>
  /\ cnFailedAt = "none"
  /\ cnTar = "none"
  /\ cnTargz = "none"
  /\ cnPrev = NoPrev
  /\ cnSnap = [dirs |-> dirs, cacheDir |-> FALSE, cacheFiles |-> {}]
  /\ acqLog = <<>>
  /\ cnCalls = 0
  /\ IdentIdle
  /\ RecentIdle
  /\ ConfigIdle

\* The registry comes to report a newer version of the starter app.
RegistryUpdate ==
  /\ registry < NumVersions
  /\ registry' = registry + 1
  /\ UNCHANGED <<dirs, cacheDir, cacheFiles, cnPc, cnOpts, cnRoot, cnArchive,
                 cnNotes, cnOutcome, cnLog, cnFailedAt, cnTar, cnTargz,
                 cnSnap, cnPrev,
                 acqLog, cnCalls>>
  /\ UNCHANGED scafOthers

\* createNewExpAsync(selectedDir, extraPackageJsonFields, opts) is called and
\* runs up to the awaited validation.
CreateCall(opts) ==
  /\ cnPc = "idle"
  /\ cnCalls < MaxCreates
  /\ cnCalls' = cnCalls + 1
  /\ cnOpts' = opts
  /\ cnRoot' = NoRoot
  /\ cnArchive' = NoArchive
  /\ cnNotes' = <<>>
  /\ cnOutcome' = "none"
  /\ cnLog' = <<"validate">>
  /\ cnFailedAt' = "none"
  /\ cnTar' = "none"
  /\ cnTargz' = "none"
  /\ cnSnap' = [dirs |-> dirs, cacheDir |-> cacheDir, cacheFiles |-> cacheFiles]
  /\ cnPrev' = [root |-> cnRoot, outcome |-> cnOutcome,
                failedAt |-> cnFailedAt]
  /\ cnPc' = "validate"
  /\ UNCHANGED <<dirs, cacheDir, cacheFiles, registry, acqLog>>
  /\ UNCHANGED scafOthers

\* The validation completes: INVALID_OPTIONS if joi rejected opts; otherwise
\* opts.name is read (a TypeError when opts is undefined), root is computed
\* and probed, DIRECTORY_ALREADY_EXISTS is thrown if something is there, and
\* mkdirp is started if not.
ValidateDone ==
  /\ cnPc = "validate"
  /\ IF ~JoiAccepts(cnOpts)
       THEN /\ Throw("INVALID_OPTIONS")
            /\ UNCHANGED cnRoot
       ELSE IF ~cnOpts.given
       THEN /\ Throw("TypeError")
            /\ UNCHANGED cnRoot
       ELSE /\ cnRoot' = cnOpts.name
            /\ IF StatFinds(cnOpts.name)
                 THEN /\ cnOutcome' = "DIRECTORY_ALREADY_EXISTS"
                      /\ cnFailedAt' = NextOp("validate")
                      /\ cnPc' = "idle"
                      /\ cnLog' = Append(cnLog, NextOp("validate"))
                      /\ UNCHANGED cnNotes
                 ELSE /\ cnLog' = cnLog \o <<NextOp("validate"),
                                             NextOp(NextOp("validate"))>>
                      /\ cnPc' = NextOp(NextOp("validate"))
                      /\ UNCHANGED <<cnNotes, cnOutcome, cnFailedAt>>
  /\ UNCHANGED <<dirs, cacheDir, cacheFiles, registry, cnOpts, cnArchive,
                 cnTar, cnTargz, cnSnap, cnPrev, acqLog, cnCalls>>
  /\ UNCHANGED scafOthers

\* A variant whose mkdirp leaves the making of the directory to the
\* extraction.
MkdirDoneLazily(ok) ==
  /\ cnPc = "mkdir"
  /\ IF ok
       THEN /\ Start(NextOp("mkdir"))
            /\ UNCHANGED <<cnOutcome, cnFailedAt>>
       ELSE Throw("Error")
  /\ UNCHANGED <<dirs, cacheDir, cacheFiles, registry, cnOpts, cnRoot,
                 cnArchive, cnTar, cnTargz, cnSnap, cnPrev, acqLog, cnCalls>>
  /\ UNCHANGED scafOthers

\* mkdirp(root) completes: the directory is there, "Downloading" is notified
\* and _downloadStarterAppAsync starts with the registry lookup.
MkdirDone(ok) ==
  /\ cnPc = "mkdir"
  /\ IF ok
       THEN /\ dirs' = [dirs EXCEPT ![cnRoot].exists = TRUE]
            /\ Start(NextOp("mkdir"))
            /\ UNCHANGED <<cnOutcome, cnFailedAt>>
       ELSE /\ Throw("Error")
            /\ UNCHANGED dirs
  /\ UNCHANGED <<cacheDir, cacheFiles, registry, cnOpts, cnRoot, cnArchive,
                 cnTar, cnTargz, cnSnap, cnPrev, acqLog, cnCalls>>
  /\ UNCHANGED scafOthers

\* Api.versionsAsync completes: the file name is built from the version, the
\* cache directory is made sure of (mkdirp.sync) and existsAsync starts.
VersionsDone(ok) ==
  /\ cnPc = "versions"
  /\ IF ok
       THEN /\ cnArchive' = registry
            /\ cacheDir' = TRUE
            /\ Start(NextOp("versions"))
            /\ UNCHANGED <<cnOutcome, cnFailedAt>>
       ELSE /\ Throw("Error")
            /\ UNCHANGED <<cnArchive, cacheDir>>
  /\ UNCHANGED <<dirs, cacheFiles, registry, cnOpts, cnRoot, cnTar, cnTargz,
                 cnSnap, cnPrev, acqLog, cnCalls>>
  /\ UNCHANGED scafOthers

\* existsAsync completes: a cached archive is returned as it is, "Extracting"
\* is notified and tar starts; otherwise the download starts.
ExistsDone ==
  /\ cnPc = "exists"
  /\ acqLog' = Append(acqLog, [version |-> cnArchive,
                               found |-> cnArchive \in cacheFiles,
                               download |-> IF CacheHas(cnArchive)
                                              THEN "none" ELSE "started",
                               path |-> StarterAppPath(cnArchive)])
  /\ IF CacheHas(cnArchive)
       THEN Start(NextOp(NextOp("exists")))
       ELSE Start(NextOp("exists"))
  /\ UNCHANGED <<dirs, cacheDir, cacheFiles, registry, cnOpts, cnRoot,
                 cnArchive, cnOutcome, cnFailedAt, cnTar, cnTargz, cnSnap,
                 cnPrev,
                 cnCalls>>
  /\ UNCHANGED scafOthers

\* The download completes: the archive is in the cache, its path is returned,
\* "Extracting" is notified and tar starts.
DownloadDone(ok) ==
  /\ cnPc = "download"
  /\ acqLog' = [acqLog EXCEPT ![Len(acqLog)].download =
                                 IF ok THEN "done" ELSE "failed"]
  /\ IF ok
       THEN /\ cacheFiles' = cacheFiles \cup {cnArchive}
            /\ Start(NextOp("download"))
            /\ UNCHANGED <<cnOutcome, cnFailedAt>>
       ELSE /\ Throw("Error")
            /\ UNCHANGED cacheFiles
  /\ UNCHANGED <<dirs, cacheDir, registry, cnOpts, cnRoot, cnArchive, cnTar,
                 cnTargz, cnSnap, cnPrev, cnCalls>>
  /\ UNCHANGED scafOthers

\* _extract, the tar invocation completes: on success "Customizing" is
\* notified and the e-mail lookup starts; on failure, which may leave some
\* files behind, the tar.gz library is tried.
TarDone(ok, partial) ==
  /\ cnPc = "tar"
  /\ cnTar' = IF ok THEN "ok" ELSE "failed"
  /\ dirs' = [dirs EXCEPT ![cnRoot].files =
                IF ok THEN "full" ELSE IF partial THEN "partial" ELSE @]
  /\ IF ok
       THEN /\ Start(NextOp(NextOp("tar")))
            /\ UNCHANGED <<cnOutcome, cnFailedAt>>
       ELSE IF CatchesTarFailure
       THEN /\ Start(NextOp("tar"))
            /\ UNCHANGED <<cnOutcome, cnFailedAt>>
       ELSE Throw("TarError")
  /\ UNCHANGED <<cacheDir, cacheFiles, registry, cnOpts, cnRoot, cnArchive,
                 cnTargz, cnSnap, cnPrev, acqLog, cnCalls>>
  /\ UNCHANGED scafOthers

\* _extract, the tar.gz library's extraction completes: on success the call
\* goes on as after tar; its failure is the call's failure.
TargzDone(ok, partial) ==
  /\ cnPc = "targz"
  /\ cnTargz' = IF ok THEN "ok" ELSE "failed"
  /\ dirs' = [dirs EXCEPT ![cnRoot].files =
                IF ok THEN "full" ELSE IF partial THEN "partial" ELSE @]
  /\ IF ok
       THEN /\ Start(NextOp("targz"))
            /\ UNCHANGED <<cnOutcome, cnFailedAt>>
       ELSE Throw("ExtractionError")
  /\ UNCHANGED <<cacheDir, cacheFiles, registry, cnOpts, cnRoot, cnArchive,
                 cnTar, cnSnap, cnPrev, acqLog, cnCalls>>
  /\ UNCHANGED scafOthers

\* An awaited read completes (UserSettings.getAsync('email'), package.json,
\* main.js, exp.json): the next operation starts, or the failure is thrown.
ReadDone(op, ok) ==
  /\ op \in {"email", "readPkg", "readMain", "readExp"}
  /\ cnPc = op
  /\ IF ok
       THEN /\ Start(NextOp(op))
            /\ UNCHANGED <<cnOutcome, cnFailedAt>>
       ELSE Throw("Error")
  /\ UNCHANGED <<dirs, cacheDir, cacheFiles, registry, cnOpts, cnRoot,
                 cnArchive, cnTar, cnTargz, cnSnap, cnPrev, acqLog, cnCalls>>
  /\ UNCHANGED scafOthers

\* The file a write operation rewrites.
Written(op, dir) ==
  CASE op = "writePkg" -> [dir EXCEPT !.pkgDone = TRUE]
    [] op = "writeMain" -> [dir EXCEPT !.mainDone = TRUE]
    [] op = "writeExp" -> [dir EXCEPT !.expDone = TRUE]

\* An awaited write completes (package.json, main.js, exp.json): the file is
\* rewritten and the next operation starts; after exp.json the call returns
\* root.
WriteDone(op, ok) ==
  /\ op \in {"writePkg", "writeMain", "writeExp"}
  /\ cnPc = op
  /\ IF ok
       THEN /\ dirs' = [dirs EXCEPT ![cnRoot] = Written(op, @)]
            /\ IF NextOp(op) = "return"
                 THEN /\ cnOutcome' = "ok"
                      /\ cnLog' = Append(cnLog, "return")
                      /\ cnPc' = "idle"
                      /\ UNCHANGED <<cnNotes, cnFailedAt>>
                 ELSE /\ Start(NextOp(op))
                      /\ UNCHANGED <<cnOutcome, cnFailedAt>>
       ELSE /\ Throw("Error")
            /\ UNCHANGED dirs
  /\ UNCHANGED <<cacheDir, cacheFiles, registry, cnOpts, cnRoot, cnArchive,
                 cnTar, cnTargz, cnSnap, cnPrev, acqLog, cnCalls>>
  /\ UNCHANGED scafOthers

ScaffoldNext ==
  \/ RegistryUpdate
  \/ \E opts \in OptsInputs : CreateCall(opts)
  \/ ValidateDone
  \/ \E ok \in BOOLEAN : MkdirDone(ok)
  \/ \E ok \in BOOLEAN : VersionsDone(ok)
  \/ ExistsDone
  \/ \E ok \in BOOLEAN : DownloadDone(ok)
  \/ \E ok, partial \in BOOLEAN : TarDone(ok, partial)
  \/ \E ok, partial \in BOOLEAN : TargzDone(ok, partial)
  \/ \E op \in {"email", "readPkg", "readMain", "readExp"}, ok \in BOOLEAN :
       ReadDone(op, ok)
  \/ \E op \in {"writePkg", "writeMain", "writeExp"}, ok \in BOOLEAN :
       WriteDone(op, ok)

\* Calls of createNewExpAsync made one after the other, and the registry.
SpecScaffold == InitScaffold /\ [][ScaffoldNext]_vars

(***************************************************************************)
(* The customization of package.json in createNewExpAsync (lines 140-152), *)
(* as a function of what it reads: the template's package.json, the        *)
(* extraPackageJsonFields argument, the stored e-mail and opts.name.       *)
(***************************************************************************)

\* The objects tried as the template's package.json: any fields, each with
\* the template's value.
TemplatePkgs == [PkgFields -> {NoField, "template"}]

\* The objects tried as extraPackageJsonFields: any fields, each with the
\* caller's value ({} stands for an omitted argument too, which
\* Object.assign skips).
ExtraFieldSets == [PkgFields -> {NoField, "extra"}]

\* A variant in which the fields of the target win (as with _.defaults).
Defaults(target, source) ==
  [f \in PkgFields |-> IF target[f] # NoField THEN target[f] ELSE source[f]]

\* Object.assign(target, source): every field of source is set on target.
Assign(target, source) ==
  [f \in PkgFields |-> IF source[f] # NoField THEN source[f] ELSE target[f]]

\* The object literal of lines 145-150.
FixedFields(name, author) ==
  [f \in PkgFields |->
     CASE f = "name" -> name
       [] f = "version" -> "0.0.0"
       [] f = "description" -> "Hello Exponent!"
       [] f = "author" -> author
       [] OTHER -> NoField]

\* The data of line 145: the template's package.json, extraPackageJsonFields
\* assigned onto it, the fixed fields assigned onto that.
PackageJsonData(template, extra, name, author) ==
  Assign(Assign(template, extra), FixedFields(name, author))

\* Any template, any extra fields, an e-mail stored or not, a valid name.
InitMerge ==
  /\ tplPkg \in TemplatePkgs
  /\ extraFields \in ExtraFieldSets
  /\ email \in {Null, "dev@example.com"}
  /\ mgName \in Targets
  /\ mgPc = "idle"
  /\ pkgWritten = EmptyObject
  /\ dirs = [t \in Targets |-> Absent]
  /\ cacheDir = FALSE
  /\ cacheFiles = {}
  /\ registry = 1
  /\ cnPc = "idle"
  /\ cnOpts = [given |-> FALSE, ntype |-> "undefined", name |-> ""]
  /\ cnRoot = NoRoot
  /\ cnArchive = NoArchive
  /\ cnNotes = <<>>
  /\ cnOutcome = "none"
  /\ cnLog = <<>>
  /\ cnFailedAt = "none"
  /\ cnTar = "none"
  /\ cnTargz = "none"
  /\ cnPrev = NoPrev
  /\ cnSnap = [dirs |-> [t \in Targets |-> Absent], cacheDir |-> FALSE,
                cacheFiles |-> {}]
  /\ acqLog = <<>>
  /\ cnCalls = 0
  /\ IdentIdle
  /\ RecentIdle
  /\ ConfigIdle

\* Lines 140-152 run: the e-mail and the template's package.json are read,
\* the data is built and written.
CustomizePackageJson ==
  /\ mgPc = "idle"
  /\ mgPc' = "done"
  /\ pkgWritten' = PackageJsonData(tplPkg, extraFields, mgName, email)
  /\ UNCHANGED <<tplPkg, extraFields, email, mgName>>
  /\ UNCHANGED mgOthers

MergeNext ==
  \/ CustomizePackageJson

\* The customization of package.json over all it can read.
SpecMerge == InitMerge /\ [][MergeNext]_vars

(***************************************************************************)
(* The configuration lookup (expConfigForRootAsync) and what is derived    *)
(* from it (determineEntryPointAsync, getPublishInfoAsync).                *)
(*                                                                         *)
(* The three functions only read, and nothing else runs between their      *)
(* awaits here, so each is one action that applies the function to the     *)
(* two files.                                                              *)
(***************************************************************************)

\* The configuration objects tried, as exp.json and as package.json's exp
\* section: every choice of fields, {} included.
Configs ==
  [isObj : {TRUE}, sdkVersion : {"", "7.0.0", "8.0.0"}, slug : {"", "app"},
   version : {"", "2.0.0"}, entryPoint : {"", "main.js"}]

\* The package.json contents tried, with and without an exp section.
Pkgs ==
  [name : {"", "pkg"}, version : {"", "1.0.0"}, main : {"", "lib.js"},
   exp : Configs \cup {NoConfig}]

\* package.json may be missing, unreadable (malformed) or hold an object.
PkgFiles ==
  {[state |-> st, json |-> NoPkg] : st \in {"missing", "unreadable"}}
    \cup {[state |-> "ok", json |-> j] : j \in Pkgs}

\* exp.json likewise.
ExpFiles ==
  {[state |-> st, json |-> NoConfig] : st \in {"missing", "unreadable"}}
    \cup {[state |-> "ok", json |-> j] : j \in Configs}

\* JsonFile.readAsync throws unless the file is there and parses.
ReadThrows(file) == file.state # "ok"

\* A slip that lets package.json's exp section win over exp.json.
expConfigPrefersEmbedded(pkgF, expF) ==
  IF ~ReadThrows(pkgF) /\ pkgF.json.exp.isObj THEN pkgF.json.exp
  ELSE IF ~ReadThrows(pkgF) /\ ~ReadThrows(expF) THEN expF.json
  ELSE NoConfig

\* A slip that forgets package.json's exp section.
expConfigStandaloneOnly(pkgF, expF) ==
  IF ~ReadThrows(pkgF) /\ ~ReadThrows(expF) THEN expF.json ELSE NoConfig

\* expConfigForRootAsync(root): both reads are in one try block, package.json
\* first, so exp.json is read only if package.json was; a failed read leaves
\* its variable, and those after it, undefined. Then, if exp is falsy and pkg
\* is not, exp becomes pkg.exp.
expConfigForRoot(pkgF, expF) ==
  LET pkgRead == ~ReadThrows(pkgF)
      exp == IF pkgRead /\ ~ReadThrows(expF) THEN expF.json ELSE NoConfig
  IN  IF ~exp.isObj /\ pkgRead THEN pkgF.json.exp ELSE exp

\* A slip that leaves the two reads outside the try block.
expConfigReadsUnguarded(pkgF, expF) == ReadThrows(pkgF) \/ ReadThrows(expF)

\* Whether expConfigForRootAsync(root) throws: never, the catch block of
\* lines 41-43 takes every failure of the two reads and nothing else can fail.
expConfigThrows(pkgF, expF) == FALSE

\* A slip that lets package.json's main win over exp.entryPoint.
determineEntryPointMainWins(pkgF, expF) ==
  LET exp == expConfigForRoot(pkgF, expF)
      main == pkgF.json.main
  IN  IF main # "" THEN main
      ELSE IF exp.isObj /\ exp.entryPoint # "" THEN exp.entryPoint
      ELSE "index.js"

\* determineEntryPointAsync(root), once package.json has been read: main or
\* 'index.js', replaced by exp.entryPoint when exp has a truthy one.
determineEntryPoint(pkgF, expF) ==
  LET exp == expConfigForRoot(pkgF, expF)
      main == pkgF.json.main
      entryPoint == IF main # "" THEN main ELSE "index.js"
  IN  IF exp.isObj /\ exp.entryPoint # "" THEN exp.entryPoint ELSE entryPoint

\* a || b on two optional strings.
OrElse(a, b) == IF a # "" THEN a ELSE b

\* getPublishInfoAsync, lines 247-267: exp, name and version after the two
\* reads and the branch on where the configuration comes from. legacy tells
\* that the first branch (package.json's exp section) was taken.
PublishFields(pkgF, expF) ==
  LET pkgRead == ~ReadThrows(pkgF)
      pkg == pkgF.json
      exp == IF pkgRead /\ ~ReadThrows(expF) THEN expF.json ELSE NoConfig
  IN  IF ~exp.isObj /\ pkgRead /\ pkg.exp.isObj
        THEN [exp |-> pkg.exp, name |-> pkg.name, version |-> pkg.version,
              legacy |-> TRUE]
      ELSE IF exp.isObj /\ pkgRead
        THEN [exp |-> exp, name |-> exp.slug,
              version |-> OrElse(pkg.version, exp.version), legacy |-> FALSE]
      ELSE [exp |-> exp, name |-> "", version |-> "", legacy |-> FALSE]

\* getPublishInfoAsync, lines 269-279: the error thrown for the fields f, by
\* the field its message names, or none.
FirstMissing(f) ==
  IF ~f.exp.isObj \/ f.exp.sdkVersion = "" THEN "MissingSdkVersion"
  ELSE IF f.name = "" THEN "MissingName"
  ELSE IF f.version = "" THEN "MissingVersion"
  ELSE "none"

\* getPublishInfoAsync, lines 281-300: the args of the PublishInfo returned
\* (ngrokUrl, which UrlUtils makes up, left out).
PublishArgs(user, f) ==
  [username |-> user, localPackageName |-> f.name,
   packageVersion |-> f.version,
   remoteFullPackageName |-> <<"@", user, "/", f.name>>,
   sdkVersion |-> f.exp.sdkVersion]

\* Any state of the two files, with or without a logged-in user.
InitConfig ==
  /\ pkgFile \in PkgFiles
  /\ expFile \in ExpFiles
  /\ username \in {"", "dev"}
  /\ ConfigCallsIdle
  /\ IdentIdle
  /\ RecentIdle
  /\ ScaffoldIdle

\* expConfigForRootAsync(root) runs and returns.
ResolveConfig ==
  /\ cfgPc = "idle"
  /\ cfgPc' = "done"
  /\ IF expConfigThrows(pkgFile, expFile)
       THEN cfgOutcome' = "ReadError" /\ UNCHANGED cfgResult
       ELSE /\ cfgOutcome' = "ok"
            /\ cfgResult' = expConfigForRoot(pkgFile, expFile)
  /\ UNCHANGED <<pkgFile, expFile, username, epPc, epOutcome, epResult,
                 pubPc, pubOutcome, pubResult>>
  /\ UNCHANGED cfgOthers

\* determineEntryPointAsync(root) runs to its end: the read of package.json
\* at line 55 is not in a try block.
DetermineEntryPoint ==
  /\ epPc = "idle"
  /\ epPc' = "done"
  /\ IF ReadThrows(pkgFile)
       THEN epOutcome' = "ReadError" /\ UNCHANGED epResult
       ELSE /\ epOutcome' = "ok"
            /\ epResult' = determineEntryPoint(pkgFile, expFile)
  /\ UNCHANGED <<pkgFile, expFile, username, cfgPc, cfgResult, cfgOutcome,
                 pubPc, pubOutcome, pubResult>>
  /\ UNCHANGED cfgOthers

\* getPublishInfoAsync(root) runs to its end. Past the three checks
\* package.json has been read, so determineEntryPointAsync returns;
\* UrlUtils.constructPublishUrlAsync may fail (urlOk).
GetPublishInfo ==
  /\ pubPc = "idle"
  /\ pubPc' = "done"
  /\ \E urlOk \in BOOLEAN :
       LET f == PublishFields(pkgFile, expFile)
       IN  IF username = ""
             THEN pubOutcome' = "NoUsername" /\ UNCHANGED pubResult
           ELSE IF FirstMissing(f) # "none"
             THEN pubOutcome' = FirstMissing(f) /\ UNCHANGED pubResult
           ELSE IF ~urlOk
             THEN pubOutcome' = "UrlError" /\ UNCHANGED pubResult
           ELSE /\ pubOutcome' = "ok"
                /\ pubResult' = PublishArgs(username, f)
  /\ UNCHANGED <<pkgFile, expFile, username, cfgPc, cfgResult, cfgOutcome,
                 epPc, epOutcome, epResult>>
  /\ UNCHANGED cfgOthers

ConfigNext ==
  \/ ResolveConfig
  \/ DetermineEntryPoint
  \/ GetPublishInfo

\* Lookups at a project root in any state.
SpecConfig == InitConfig /\ [][ConfigNext]_vars

(***************************************************************************)
(* Claims about the derived identifiers.                                   *)
(***************************************************************************)

\* C1 (as claimed): for each of the two identifiers, once two calls made one
\* after the other on an initially absent key have both returned, the
\* generator has run exactly once and the two returned values are equal.
\* Checked under SpecIdentSeq, where a call starts only after the previous
\* one returned. It fails for urlRandomness: getProjectRandomnessAsync does
\* not await its setAsync, so the second call can read before the write.
C1_SequentialCallsGenerateOnce ==
  \A k \in IdKeys :
    Len(rets[k]) = 2 => genCount[k] = 1 /\ rets[k][1] = rets[k][2]

TwoCallsEnded(k) ==
  /\ idCalls = 2
  /\ pending = {}
  /\ \A c \in Callers :
       idPc[c] = "idle" /\ idKey[c] = k /\ idRet[c] # NoValue

\* C17: when two calls on the same initially absent identifier have ended,
\* however they interleaved: each has invoked the generator at most once,
\* and both if both read before either's write landed; a call that
\* generated has returned the value it generated itself, whatever the other
\* wrote; and the value in the store is the one generated by the caller
\* whose write landed last.
C17_RaceBothGenerateLastWriterWins ==
  \A k \in IdKeys :
    TwoCallsEnded(k) =>
      /\ \A c \in Callers :
           /\ idGens[c] <= 1
           /\ idGens[c] = 1 => idRet[c] = idGenVal[c]
           /\ Falsy(idSaw[c]) => idGens[c] = 1
      /\ lastWriter[k] \in Callers
      /\ idGens[lastWriter[k]] = 1
      /\ store[k] = idGenVal[lastWriter[k]]

\* C17's case: two calls for the placeholder username raced, both generated,
\* they returned different values and the store holds the last writer's.
C17_Witness ==
  /\ TwoCallsEnded(LpuKey)
  /\ \A c \in Callers : idGens[c] = 1
  /\ idRet[1] # idRet[2]
  /\ lastWriter[LpuKey] = 1
  /\ store[LpuKey] = idRet[1]

(***************************************************************************)
(* Claims about the recent-projects list.                                  *)
(***************************************************************************)

\* C3: from an empty or missing store, after any sequence of calls made one
\* after the other the persisted list has at most 100 entries, holds no path
\* twice, and starts with the root of the last call: the argument resolved,
\* which is the argument itself when that is absolute and has names only.
C3_ListBoundedDistinctNewestFirst ==
  recCalls =>
    LET list == recentFile.json
    IN  /\ recentFile.exists
        /\ Len(list) <= MaxRecent
        /\ Cardinality({list[i] : i \in 1..Len(list)}) = Len(list)
        /\ Len(list) >= 1
        /\ list[1] = resolve(lastRaw)
        /\ (lastRaw.abs /\ \A i \in 1..Len(lastRaw.segs) : lastRaw.segs[i] > 0)
              => list[1] = lastRaw.segs

\* C3's case: the list is full, roots have been dropped from it, and the
\* last call named, by a relative path, a root recorded before.
C3_Witness ==
  /\ Len(recentFile.json) = MaxRecent
  /\ Len(useOrder) > MaxRecent + 1
  /\ ~lastRaw.abs
  /\ recentFile.json[1] = HotRoot

\* C4: the persisted list is the distinct recorded roots ordered by last use,
\* newest first, cut to the first 100; when n distinct never-repeated roots
\* were recorded, these are the last min(n, 100) of them, newest first.
C4_ListIsLastUseOrderCutTo100 ==
  recCalls =>
    LET list == recentFile.json
        kept == IF Len(useOrder) < MaxRecent THEN Len(useOrder) ELSE MaxRecent
    IN  /\ list = SubSeq(useOrder, 1, kept)
        /\ Len(useOrder) = nextFresh =>
              list = [i \in 1..kept |-> FreshArg(nextFresh + 1 - i).segs]

\* C4's case: 105 distinct roots went in one after the other and the list
\* holds exactly the 100 newest.
C4_Witness ==
  /\ nextFresh = MaxFresh
  /\ Len(useOrder) = nextFresh
  /\ Len(recentFile.json) = MaxRecent
  /\ recentFile.json[1] = FreshArg(MaxFresh).segs
  /\ recentFile.json[MaxRecent] = FreshArg(MaxFresh - MaxRecent + 1).segs

(***************************************************************************)
(* Claims about project creation. They speak of the call in progress or,   *)
(* between calls, of the last call.                                        *)
(***************************************************************************)

\* The call has started operation op.
InLog(op) == \E i \in 1..Len(cnLog) : cnLog[i] = op

\* opts carries a name that is a non-empty string.
HasValidName(opts) == opts.given /\ opts.ntype = "string" /\ opts.name # ""

\* The call has left the file system, the cache and the notifier alone.
NoEffects ==
  /\ dirs = cnSnap.dirs
  /\ cacheDir = cnSnap.cacheDir
  /\ cacheFiles = cnSnap.cacheFiles
  /\ cnNotes = <<>>

\* C5: no download is started for an archive found in the cache, and none is
\* in flight while its file is there; so of two runs of
\* _downloadStarterAppAsync that the registry gave the same version, the
\* first having downloaded the file, the second downloads nothing and
\* returns the same path.
C5_CachedArchiveIsNotDownloadedAgain ==
  /\ \A i \in 1..Len(acqLog) : acqLog[i].found => acqLog[i].download = "none"
  /\ cnPc = "download" => cnArchive \notin cacheFiles
  /\ \A i, j \in 1..Len(acqLog) :
       (i < j /\ acqLog[i].version = acqLog[j].version
              /\ acqLog[i].download = "done")
         => acqLog[j].download = "none" /\ acqLog[j].path = acqLog[i].path

\* C5's case: two runs with the same version, the first downloaded the file
\* and the second found it.
C5_Witness ==
  \E i, j \in 1..Len(acqLog) :
    /\ i < j
    /\ acqLog[i].version = acqLog[j].version
    /\ acqLog[i].download = "done"
    /\ acqLog[j].found

\* C6: a call with a valid name whose target was there when it was called
\* creates no directory, acquires and extracts nothing, writes no file and
\* notifies nothing, at any point up to its end, and ends with
\* DIRECTORY_ALREADY_EXISTS.
C6_ExistingTargetFailsWithoutEffects ==
  (cnCalls > 0 /\ HasValidName(cnOpts) /\ cnSnap.dirs[cnOpts.name].exists) =>
    /\ NoEffects
    /\ \A i \in 1..Len(cnLog) : cnLog[i] \in {"validate", "stat"}
    /\ cnPc \in {"validate", "idle"}
    /\ cnPc = "idle" => cnOutcome = "DIRECTORY_ALREADY_EXISTS"

\* C6's case: a call has failed on a target an earlier call had created.
C6_Witness ==
  /\ cnOutcome = "DIRECTORY_ALREADY_EXISTS"
  /\ cnCalls > 1
  /\ dirs[cnRoot].files = "full"

\* C7: the tar.gz library runs if and only if the tar invocation failed, and
\* at most once; after its success, as after tar's, the call goes on to the
\* customization with the files extracted; after its failure the call has
\* ended with that failure, no customization read or write has started, no
\* file is customized, and the target directory is still there.
C7_FallbackIffPrimaryFailed ==
  cnCalls > 0 =>
    /\ InLog("targz") <=> cnTar = "failed"
    /\ Cardinality({i \in 1..Len(cnLog) : cnLog[i] = "targz"}) <= 1
    /\ cnTargz # "none" => InLog("targz")
    /\ (cnTar = "ok" \/ cnTargz = "ok") =>
          /\ InLog("email")
          /\ cnFailedAt \notin {"tar", "targz"}
          /\ dirs[cnRoot].files = "full"
    /\ cnTargz = "failed" =>
          /\ cnPc = "idle"
          /\ cnOutcome = "ExtractionError"
          /\ cnFailedAt = "targz"
          /\ \A op \in {"email", "readPkg", "writePkg", "readMain", "writeMain",
                         "readExp", "writeExp", "return"} : ~InLog(op)
          /\ dirs[cnRoot].exists
          /\ ~dirs[cnRoot].pkgDone /\ ~dirs[cnRoot].mainDone
          /\ ~dirs[cnRoot].expDone

\* C7's case: both extractions failed, leaving some files behind.
C7_Witness ==
  /\ cnTar = "failed"
  /\ cnTargz = "failed"
  /\ dirs[cnRoot].files = "partial"

\* The step of createProject (1 validation .. 9 return) an operation is of.
PhaseOf(op) ==
  CASE op = "validate" -> 1
    [] op = "stat" -> 2
    [] op = "mkdir" -> 3
    [] op \in {"versions", "exists", "download"} -> 4
    [] op \in {"tar", "targz"} -> 5
    [] op \in {"email", "readPkg", "writePkg"} -> 6
    [] op \in {"readMain", "writeMain"} -> 7
    [] op \in {"readExp", "writeExp"} -> 8
    [] op = "return" -> 9

\* C8: the operations of a call start in the order of the steps, no step
\* skipped and no operation twice; an operation starts only with the effect
\* of the steps before it in place; the operation in flight is the last one
\* started; and a call that failed started nothing after the operation that
\* failed.
C8_StepsInFixedOrder ==
  cnCalls > 0 =>
    /\ PhaseOf(cnLog[1]) = 1
    /\ \A i \in 1..(Len(cnLog) - 1) :
         /\ PhaseOf(cnLog[i]) <= PhaseOf(cnLog[i + 1])
         /\ PhaseOf(cnLog[i + 1]) <= PhaseOf(cnLog[i]) + 1
    /\ \A i, j \in 1..Len(cnLog) : i < j => cnLog[i] # cnLog[j]
    /\ InLog("versions") => dirs[cnRoot].exists
    /\ InLog("tar") => cnArchive \in cacheFiles
    /\ InLog("email") => dirs[cnRoot].files = "full"
    /\ InLog("readMain") => dirs[cnRoot].pkgDone
    /\ InLog("readExp") => dirs[cnRoot].mainDone
    /\ InLog("return") <=> cnOutcome = "ok"
    /\ cnOutcome = "ok" => dirs[cnRoot].expDone
    /\ cnPc # "idle" => cnOutcome = "none" /\ cnLog[Len(cnLog)] = cnPc
    /\ cnOutcome \notin {"none", "ok"} =>
         cnPc = "idle" /\ cnLog[Len(cnLog)] = cnFailedAt

\* C8's case: a call went through every step and returned, after a download
\* and after the fallback extraction.
C8_Witness ==
  /\ cnOutcome = "ok"
  /\ InLog("download")
  /\ InLog("targz")
  /\ Len(cnLog) = 16

\* C9 (as claimed): a call whose opts carry no name, an empty name or a name
\* that is no string has no effect at any point and ends with
\* INVALID_OPTIONS. It fails for a call without opts: joi accepts undefined,
\* and reading opts.name then throws a TypeError.
C9_InvalidNameFailsValidation ==
  (cnCalls > 0 /\ ~HasValidName(cnOpts)) =>
    /\ NoEffects
    /\ cnLog = <<"validate">>
    /\ cnPc = "idle" => cnOutcome = "INVALID_OPTIONS"

\* The operations from the acquisition of the archive on.
FromAcquisitionOn ==
  {"versions", "exists", "download", "tar", "targz", "email", "readPkg",
   "writePkg", "readMain", "writeMain", "readExp", "writeExp"}

\* C19: when a call has failed in an operation from the acquisition of the
\* archive on, the directory it made is still there; and the call after it,
\* when it names the same root, fails with DIRECTORY_ALREADY_EXISTS, having
\* started nothing past the probe of the directory.
C19_FailedCallLeavesDirectoryBehind ==
  /\ (cnPc = "idle" /\ cnOutcome \notin {"none", "ok"}
        /\ cnFailedAt \in FromAcquisitionOn) =>
       dirs[cnRoot].exists
  /\ (cnPrev.outcome \notin {"none", "ok"}
        /\ cnPrev.failedAt \in FromAcquisitionOn
        /\ HasValidName(cnOpts) /\ cnOpts.name = cnPrev.root) =>
       /\ dirs[cnPrev.root].exists
       /\ cnPc \in {"validate", "idle"}
       /\ cnPc = "idle" => cnOutcome = "DIRECTORY_ALREADY_EXISTS"
       /\ ~InLog("mkdir") /\ ~InLog("versions")

\* C19's case: the download of a call failed, and the call made after it
\* with the same name has failed with DIRECTORY_ALREADY_EXISTS.
C19_Witness ==
  /\ cnPrev.failedAt = "download" /\ cnPrev.outcome = "Error"
  /\ HasValidName(cnOpts) /\ cnOpts.name = cnPrev.root
  /\ cnPc = "idle" /\ cnOutcome = "DIRECTORY_ALREADY_EXISTS"

\* The fields createNewExpAsync sets itself.
FixedNames == {"name", "version", "description", "author"}

\* C20: in the package.json a call writes, name is the project's name,
\* version is "0.0.0", description is "Hello Exponent!" and author is the
\* stored e-mail (null when none is stored), whatever the template and
\* extraPackageJsonFields give for them; every other field is
\* extraPackageJsonFields' when it has the field, else the template's, else
\* not there.
C20_MergePrecedence ==
  mgPc = "done" =>
    /\ pkgWritten["name"] = mgName
    /\ pkgWritten["version"] = "0.0.0"
    /\ pkgWritten["description"] = "Hello Exponent!"
    /\ pkgWritten["author"] = email
    /\ \A f \in PkgFields \ FixedNames :
         pkgWritten[f] = IF extraFields[f] # NoField THEN extraFields[f]
                         ELSE tplPkg[f]

\* C20's case: the template and the extra fields both give every fixed
\* field and main, the template alone gives license and no e-mail is stored;
\* the fixed values, the extra main and the template's license are written.
C20_Witness ==
  /\ mgPc = "done"
  /\ \A f \in FixedNames \cup {"main"} :
       tplPkg[f] = "template" /\ extraFields[f] = "extra"
  /\ tplPkg["license"] = "template" /\ extraFields["license"] = NoField
  /\ email = Null
  /\ pkgWritten["author"] = Null /\ pkgWritten["name"] = mgName
  /\ pkgWritten["main"] = "extra" /\ pkgWritten["license"] = "template"

(***************************************************************************)
(* Claims about the configuration lookup.                                  *)
(***************************************************************************)

\* C10: with package.json and exp.json both there and readable, the lookup
\* returns the contents of exp.json, whole, whatever package.json's exp
\* section holds.
C10_StandaloneWinsWhenBothPresent ==
  (cfgPc = "done" /\ pkgFile.state = "ok" /\ expFile.state = "ok") =>
    cfgResult = expFile.json

\* C10's case: the lookup has returned at a root where package.json has an
\* exp section that differs from exp.json in every field.
C10_Witness ==
  /\ cfgPc = "done"
  /\ pkgFile.state = "ok" /\ expFile.state = "ok"
  /\ pkgFile.json.exp.isObj
  /\ pkgFile.json.exp.sdkVersion = "7.0.0" /\ expFile.json.sdkVersion = "8.0.0"
  /\ pkgFile.json.exp.slug # expFile.json.slug
  /\ pkgFile.json.exp.version # expFile.json.version
  /\ pkgFile.json.exp.entryPoint # expFile.json.entryPoint

\* C11 (as claimed): with exp.json there and readable, the lookup returns
\* its contents, whatever the state of package.json (with an exp section,
\* without one, or missing).
C11_StandaloneWinsWhateverThePackageJson ==
  (cfgPc = "done" /\ expFile.state = "ok") => cfgResult = expFile.json

\* C12: with exp.json absent and package.json readable, the lookup returns
\* exactly package.json's exp section (undefined when it has none); and the
\* lookup never throws, whatever the state of the two files.
C12_EmbeddedSectionWhenStandaloneAbsent ==
  cfgPc = "done" =>
    /\ cfgOutcome = "ok"
    /\ (expFile.state = "missing" /\ pkgFile.state = "ok") =>
         cfgResult = pkgFile.json.exp

\* C12's case: the lookup has returned the exp section of a package.json
\* next to which there is no exp.json.
C12_Witness ==
  /\ cfgPc = "done"
  /\ expFile.state = "missing" /\ pkgFile.state = "ok"
  /\ pkgFile.json.exp.isObj /\ pkgFile.json.exp.sdkVersion = "7.0.0"
  /\ cfgResult = pkgFile.json.exp

\* Where the configuration at the root comes from, told from the files.
Standalone == pkgFile.state = "ok" /\ expFile.state = "ok"
Embedded ==
  pkgFile.state = "ok" /\ expFile.state # "ok" /\ pkgFile.json.exp.isObj

\* The resolved configuration at the root.
ResolvedAtRoot ==
  IF Standalone THEN expFile.json
  ELSE IF Embedded THEN pkgFile.json.exp
  ELSE NoConfig

\* Whether the resolved configuration has an sdkVersion.
HasSdkVersion == ResolvedAtRoot.isObj /\ ResolvedAtRoot.sdkVersion # ""

\* The derivable name: the standalone configuration's slug, or
\* package.json's name with an embedded configuration.
DerivableName ==
  IF Standalone THEN expFile.json.slug
  ELSE IF Embedded THEN pkgFile.json.name
  ELSE ""

\* The derivable version as the specification words it: package.json's
\* version, or failing that the resolved configuration's.
DerivableVersion ==
  IF pkgFile.state = "ok" /\ pkgFile.json.version # ""
    THEN pkgFile.json.version
  ELSE ResolvedAtRoot.version

\* The version as getPublishInfoAsync derives it: the fallback is kept to
\* the standalone configuration.
DerivableVersionStandaloneFallback ==
  IF pkgFile.state = "ok" /\ pkgFile.json.version # ""
    THEN pkgFile.json.version
  ELSE IF Standalone THEN expFile.json.version
  ELSE ""

\* The outcomes of getPublishInfoAsync that name a missing field.
FieldErrors == {"MissingSdkVersion", "MissingName", "MissingVersion"}

\* C13 (as claimed), read for a caller with a username: getPublishInfoAsync
\* fails naming sdkVersion whenever the resolved configuration is absent or
\* has no sdkVersion, names name only when there is an sdkVersion and no
\* derivable name, and names version only when sdkVersion and name are there
\* and no version is derivable.
C13_FirstMissingFieldInOrder ==
  (pubPc = "done" /\ username # "") =>
    /\ ~HasSdkVersion => pubOutcome = "MissingSdkVersion"
    /\ pubOutcome = "MissingName" => (HasSdkVersion /\ DerivableName = "")
    /\ pubOutcome = "MissingVersion" =>
         (HasSdkVersion /\ DerivableName # "" /\ DerivableVersion = "")

\* What the checks of getPublishInfoAsync do: a call without a username
\* fails on that, before any field is looked at. A call with a username
\* fails naming sdkVersion exactly when the resolved configuration is absent
\* or has no sdkVersion, naming name exactly when there is an sdkVersion and
\* no derivable name, and naming version exactly when sdkVersion and name
\* are there and neither package.json nor a standalone configuration gives a
\* version.
PublishChecksAsCoded ==
  pubPc = "done" =>
    IF username = "" THEN pubOutcome = "NoUsername"
    ELSE /\ pubOutcome = "MissingSdkVersion" <=> ~HasSdkVersion
         /\ pubOutcome = "MissingName" <=>
              (HasSdkVersion /\ DerivableName = "")
         /\ pubOutcome = "MissingVersion" <=>
              (HasSdkVersion /\ DerivableName # ""
                 /\ DerivableVersionStandaloneFallback = "")

\* C14 (as claimed), read for a caller with a username: at every root whose
\* resolved configuration, standalone or embedded, has an sdkVersion, a
\* derivable name and a version, the call fails on no field, and the version
\* it returns is package.json's or, when package.json has none, the
\* configuration's.
C14_VersionFallsBackToConfig ==
  (pubPc = "done" /\ username # "" /\ HasSdkVersion /\ DerivableName # ""
     /\ ResolvedAtRoot.version # "") =>
    /\ pubOutcome \notin FieldErrors
    /\ pubOutcome = "ok" => pubResult.packageVersion = DerivableVersion

\* What getPublishInfoAsync does about the version: the fallback to the
\* configuration's version is there for a standalone configuration only.
\* With a username, an sdkVersion and a derivable name: a root whose
\* package.json or standalone configuration has a version passes the
\* checks, and the version returned is package.json's or else the
\* standalone configuration's; a root with an embedded configuration and no
\* version in package.json fails naming version, also when the embedded
\* section has a version.
PublishVersionAsCoded ==
  (pubPc = "done" /\ username # "" /\ HasSdkVersion /\ DerivableName # "") =>
    IF DerivableVersionStandaloneFallback # ""
      THEN /\ pubOutcome \in {"ok", "UrlError"}
           /\ pubOutcome = "ok" =>
                pubResult.packageVersion = DerivableVersionStandaloneFallback
      ELSE pubOutcome = "MissingVersion"

\* C15: at a root whose package.json is readable, determineEntryPointAsync
\* returns the resolved configuration's entryPoint when it has one, else
\* package.json's main when it has one, else "index.js".
C15_EntryPointPrecedence ==
  (epPc = "done" /\ pkgFile.state = "ok") =>
    /\ epOutcome = "ok"
    /\ epResult =
         IF ResolvedAtRoot.isObj /\ ResolvedAtRoot.entryPoint # ""
           THEN ResolvedAtRoot.entryPoint
         ELSE IF pkgFile.json.main # "" THEN pkgFile.json.main
         ELSE "index.js"

\* C15's case: a call that returned the configuration's entryPoint at a root
\* whose package.json has a different main.
C15_Witness ==
  /\ epPc = "done" /\ epOutcome = "ok"
  /\ pkgFile.state = "ok" /\ pkgFile.json.main = "lib.js"
  /\ ResolvedAtRoot.entryPoint = "main.js"
  /\ epResult = "main.js"

\* Whether a list holds no path twice.
NoDuplicates(list) ==
  \A i, j \in 1..Len(list) : list[i] = list[j] => i = j

\* C18: from a store that is duplicate-free with at most 100 entries, once
\* two concurrent calls have both completed, however their reads and writes
\* interleaved, the persisted list has at most 100 entries, holds no path
\* twice and starts with the root of the call whose write completed last.
C18_RaceKeepsListWellFormed ==
  (\A c \in Callers : srPc[c] = "done") =>
    /\ Len(recentFile.json) <= 100
    /\ NoDuplicates(recentFile.json)
    /\ srLastWriter \in Callers
    /\ recentFile.json[1] = srRoot[srLastWriter]

\* C18's case: both calls read a full list before either wrote; the list
\* persisted in the end is full and lacks the root of the call that wrote
\* first.
C18_Witness ==
  /\ \A c \in Callers : srPc[c] = "done"
  /\ srLastWriter = 2
  /\ srRoot[1] # srRoot[2]
  /\ Len(recentFile.json) = 100
  /\ \A i \in 1..Len(recentFile.json) : recentFile.json[i] # srRoot[1]

(***************************************************************************)
(* Claims about the valid recent projects.                                 *)
(***************************************************************************)

\* The roots of a sequence of infos.
RootsOf(results) == [i \in 1..Len(results) |-> results[i].root]

\* The first n elements of a sequence (all of it when it is shorter).
FirstN(list, n) == SubSeq(list, 1, IF Len(list) < n THEN Len(list) ELSE n)

\* C16: recentValidExpsAsync returns the entries of the persisted list that
\* pass the probe (expInfoAsync does not throw), in their persisted order,
\* cut to the first 5 of them, and leaves the persisted list as it was.
C16_ValidEntriesInOrderStoreUntouched ==
  rvCalls =>
    /\ RootsOf(rvResult) =
         FirstN(SelectSeq(rvBefore.json, LAMBDA r : projects[r] # "gone"), 5)
    /\ \A i \in 1..Len(rvResult) : ~rvResult[i].isNull
    /\ rvAfter = rvBefore

\* C16's case: the call found seven entries, one of the first five invalid
\* and the others valid, and returned five.
C16_Witness ==
  /\ rvCalls
  /\ Len(rvBefore.json) = 7
  /\ projects[rvBefore.json[2]] = "gone"
  /\ \A i \in {1, 3, 4, 5, 6, 7} : projects[rvBefore.json[i]] # "gone"
  /\ Len(rvResult) = 5
  /\ rvResult[5].root = rvBefore.json[6]
  /\ recentFile.json = rvBefore.json /\ Len(recentFile.json) = 7

====
